---- MODULE Spec2Model ----
(***************************************************************************)
(* gdorker: the paginated search run of src/src/gdorker/__init__.py.       *)
(* One process runs main(); after it exits a second process may resume     *)
(* from the session file the first one left behind.                        *)
(***************************************************************************)
EXTENDS Integers, Sequences, FiniteSets

VARIABLES
    pc,             \* control location of the running process
    exit_status,    \* "running", "0" or "1"
    file,           \* the session file: None, or Some(JSON document)
    qfile,          \* the query file on disk: [lines, final_nl]
    resume,         \* main's parameter resume
    data,           \* main's local data: None, or Some(what session.load returned)
    engine,         \* client.search_engine (args.engine of this process)
    client_limit,   \* SearchClient.is_limit_reached, set by error_handler
    file_or_query,  \* main's local file_or_query
    options,        \* main's local options (logger.formatter.options)
    current_query,  \* main's local current_query (None or Some(str))
    offset,         \* main's local offset (None or Some(int))
    queries,        \* main's local queries
    i,              \* index of the for loop of main (enumerate)
    d_offset,       \* Dorker.offset
    d_query,        \* Dorker.query (None while the attribute is unset)
    d_limit,        \* Dorker.is_limit_reached
    start,          \* the start argument of the client call in flight
    results,        \* the list _search returned for the current page
    pending,        \* live fetches of the current page not yet completed
    emitted,        \* result lines logger.url wrote for the current query
    written,        \* items of the current page the printer's loop has done
    log,            \* kinds of info/error lines written for the current query
    config,         \* the ConfigManager, its file and the keys the client took
    pieces,         \* the pieces handed to Formatter.result (None or Some(dict))
    line,           \* what Formatter.result returned (None or Some(fields))
    hist            \* observations of the run the claims speak about

vars == <<pc, exit_status, file, qfile, resume, data, engine, client_limit,
          file_or_query, options, current_query, offset, queries, i,
          d_offset, d_query, d_limit, start, results, pending, emitted,
          written, log, config, pieces, line, hist>>

-----------------------------------------------------------------------------
(* Bounds of the model. *)

\* pages of a query the backend may answer with items
MaxPages == 2
\* lines of the query file of the loader specification
MaxLines == 5
\* largest offset of the session specification
MaxSessionOffset == 110

-----------------------------------------------------------------------------
(* Python values: None and optional values. *)

None == <<>>
Some(x) == <<x>>
Get(o) == o[1]

\* Dorker.per_page
per_page == 10

Engines == {"google", "duckduckgo"}

\* the dork texts of the run specification, and the path of the query file
Texts == {"a", "b", "c"}
QueryPath == "dorks.txt"

-----------------------------------------------------------------------------
(* JSON, as json.dumps writes it and json.loads reads it. *)

Digit == <<"0", "1", "2", "3", "4", "5", "6", "7", "8", "9">>

RECURSIVE IntToDigits(_)
IntToDigits(n) ==
    IF n < 10 THEN <<Digit[n + 1]>>
    ELSE Append(IntToDigits(n \div 10), Digit[(n % 10) + 1])

DigitValue(c) == (CHOOSE k \in 1..10 : Digit[k] = c) - 1

RECURSIVE DigitsToInt(_)
DigitsToInt(ds) ==
    IF Len(ds) = 0 THEN 0
    ELSE 10 * DigitsToInt(SubSeq(ds, 1, Len(ds) - 1)) + DigitValue(ds[Len(ds)])

JString(s) == [t |-> "string", v |-> s]
JNumber(n) == [t |-> "number", v |-> IntToDigits(n)]
JBool(b) == IF b THEN [t |-> "true"] ELSE [t |-> "false"]
JNull == [t |-> "null"]
JObject(r) == [t |-> "object", v |-> r]
JNullable(o) == IF o = None THEN JNull ELSE JString(Get(o))

\* json.loads of one scalar value
JDecode(j) ==
    CASE j.t = "string" -> j.v
      [] j.t = "number" -> DigitsToInt(j.v)
      [] j.t = "true" -> TRUE
      [] j.t = "false" -> FALSE
JDecodeNullable(j) == IF j.t = "null" THEN None ELSE Some(JDecode(j))

DumpOptions(o) ==
    JObject([title |-> JBool(o.title), body |-> JBool(o.body),
             code |-> JBool(o.code), dest |-> JNullable(o.dest),
             debug |-> JBool(o.debug), engine |-> JString(o.engine)])

LoadOptions(j) ==
    [title |-> JDecode(j.v.title), body |-> JDecode(j.v.body),
     code |-> JDecode(j.v.code), dest |-> JDecodeNullable(j.v.dest),
     debug |-> JDecode(j.v.debug), engine |-> JDecode(j.v.engine)]

\* the text of a file: a JSON document, or text json.loads rejects
JsonText(j) == [parses |-> TRUE, value |-> j]
NotJson == [parses |-> FALSE]

\* SessionDump with the query written through str(): None becomes "None"
SessionDump_strquery(foq, opts, query, off) ==
    JsonText(JObject(
        [file_or_query |-> JString(foq),
         options |-> DumpOptions(opts),
         current_query |-> JString(IF query = None THEN "None" ELSE Get(query)),
         offset |-> JNumber(off)]))

\* the record Session.save builds and the text json.dumps makes of it
SessionDump(foq, opts, query, off) ==
    JsonText(JObject(
        [file_or_query |-> JString(foq),
         options |-> DumpOptions(opts),
         current_query |-> JNullable(query),
         offset |-> JNumber(off)]))

\* Session.load: json.loads of a text Session.save wrote
SessionLoad(t) ==
    LET j == t.value.v
    IN  [file_or_query |-> JDecode(j.file_or_query),
         options |-> LoadOptions(j.options),
         current_query |-> JDecodeNullable(j.current_query),
         offset |-> JDecode(j.offset)]

\* the keys main reads from what Session.load returned, lines 333-336
SessionKeys == {"file_or_query", "options", "offset", "current_query"}

\* main resuming without a check of the file: what cannot be read is
\* replaced by the values of a fresh run
Restored_defaults(f, foq, opts) ==
    IF f # None /\ Get(f).parses /\ Get(f).value.t = "object"
         /\ SessionKeys \subseteq DOMAIN Get(f).value.v
    THEN [raises |-> FALSE, data |-> Some(SessionLoad(Get(f)))]
    ELSE [raises |-> FALSE,
          data |-> Some([file_or_query |-> foq, options |-> opts,
                         current_query |-> None, offset |-> 0])]

\* main, lines 331-336, on the session file f: open raises FileNotFoundError
\* when the file is absent, json.loads raises JSONDecodeError on text that is
\* not JSON, data[key] raises TypeError when data is not a dict and KeyError
\* when the key is missing; none of them is caught. foq and opts are the
\* values of the command line the restored ones replace
Restored(f, foq, opts) ==
    IF f # None /\ Get(f).parses /\ Get(f).value.t = "object"
         /\ SessionKeys \subseteq DOMAIN Get(f).value.v
    THEN [raises |-> FALSE, data |-> Some(SessionLoad(Get(f)))]
    ELSE [raises |-> TRUE, data |-> None]

\* Session.save(file_or_query, logger, gs): the new content of the file
Save(foq, opts, query, off) == Some(SessionDump(foq, opts, query, off))

-----------------------------------------------------------------------------
(* load_queries *)

\* f.readlines(): every line keeps its terminator; the last line has one only
\* when the file ends with a newline
ReadLines(f) ==
    [k \in 1..Len(f.lines) |->
        IF k < Len(f.lines) \/ f.final_nl THEN f.lines[k] \o "\n" ELSE f.lines[k]]

Range(s) == {s[k] : k \in 1..Len(s)}

\* list(set(x)): the distinct elements, in the iteration order of a set of
\* strings, which the per-process string hash seed decides
ListOfSet(S) ==
    {p \in [1..Cardinality(S) -> S] : \A a, b \in 1..Cardinality(S) : p[a] = p[b] => a = b}

\* the lists load_queries(file_or_query) can return
load_queries(foq, f) ==
    IF foq = QueryPath THEN ListOfSet(Range(ReadLines(f))) ELSE {<<foq>>}

\* main: index = next((i for i, q in enumerate(queries) if q == current_query),
\* len(queries)), zero-based
IndexOf(qs, q) ==
    IF \E k \in 1..Len(qs) : qs[k] = q
    THEN (CHOOSE k \in 1..Len(qs) : qs[k] = q /\ \A m \in 1..(k - 1) : qs[m] # q) - 1
    ELSE Len(qs)

\* CutQueries keeping the whole list when current_query is not in it
CutQueries_keep_all(qs, cq) ==
    IF cq # None /\ Get(cq) # "" /\ \E n \in 1..Len(qs) : qs[n] = Get(cq)
    THEN SubSeq(qs, IndexOf(qs, Get(cq)) + 1, Len(qs))
    ELSE qs

\* main: queries[index:] when current_query is truthy
CutQueries(qs, cq) ==
    IF cq # None /\ Get(cq) # ""
    THEN SubSeq(qs, IndexOf(qs, Get(cq)) + 1, Len(qs))
    ELSE qs

-----------------------------------------------------------------------------
(* The inputs of a run. *)

\* the query files the run specification starts from
RunFiles ==
    { [lines |-> <<>>, final_nl |-> FALSE],
      [lines |-> <<"a", "b", "c">>, final_nl |-> TRUE] }

\* the options record entrypoint builds from the command line
OptionSets ==
    [title : {TRUE}, body : BOOLEAN, code : BOOLEAN, dest : {None},
     debug : {FALSE}, engine : Engines]

\* the non-empty pages a backend returns: lists of result links
Pages == { <<"u1">>, <<"u1", "u2">> }

\* the failure by which a backend signals that its quota is exhausted
QuotaSignal(eng) == IF eng = "google" THEN "RESOURCE_EXHAUSTED" ELSE "202"

\* the failures of one client call, by backend
Failures(eng) ==
    IF eng = "google"
    THEN {"RESOURCE_EXHAUSTED", "INVALID_ARGUMENT", "OTHER_STATUS", "BAD_JSON", "NO_CONTENT"}
    ELSE {"202", "OTHER"}

-----------------------------------------------------------------------------
(* Formatter and SearchClient.error_handler *)

\* Formatter.__init__: is_extended
is_extended(o) == o.code \/ (o.body /\ o.engine # "duckduckgo")

\* Formatter._title, _url: a bracketed field in its colour
\* (the kind names the method that made the field)
_title(title) == [kind |-> "title", color |-> "MAGENTA", text |-> title]
_url(url) == [kind |-> "url", color |-> "GREEN", text |-> url]

\* Formatter._code: the colour follows the class of the status
_code(code) ==
    [kind |-> "code",
     color |-> IF code >= 200 /\ code < 300 THEN "GREEN"
               ELSE IF code >= 300 /\ code < 400 THEN "YELLOW"
               ELSE IF code >= 400 /\ code < 600 THEN "RED"
               ELSE "WHITE",
     text |-> code]

\* characters \s matches
IsSpace(c) == c \in {" ", "\n", "\t"}

\* re.sub(r'[\s]+', " ", body): every run of whitespace becomes one space
RECURSIVE Collapse(_)
Collapse(s) ==
    IF Len(s) = 0 THEN <<>>
    ELSE IF Len(s) = 1 THEN <<IF IsSpace(s[1]) THEN " " ELSE s[1]>>
    ELSE LET h == Len(s) \div 2
             l == Collapse(SubSeq(s, 1, h))
             r == Collapse(SubSeq(s, h + 1, Len(s)))
         IN  IF l[Len(l)] = " " /\ r[1] = " " THEN l \o Tail(r) ELSE l \o r

\* str.strip() of a text whose whitespace runs are single spaces
Strip(s) ==
    LET a == IF Len(s) > 0 /\ s[1] = " " THEN 2 ELSE 1
        b == IF Len(s) >= a /\ s[Len(s)] = " " THEN Len(s) - 1 ELSE Len(s)
    IN  SubSeq(s, a, b)

\* the slice [0:100] of Formatter._body
SnippetLen == 100

\* Formatter._body: the text of the body element, "" when there is none,
\* whitespace collapsed and stripped, cut to 100 characters. A page is
\* [body |-> None or Some(sequence of characters)]
_body(html) ==
    LET body == IF html.body = None THEN <<>> ELSE Get(html.body)
        text == Strip(Collapse(body))
    IN  [kind |-> "body", color |-> "CYAN",
         text |-> SubSeq(text, 1, IF Len(text) < SnippetLen THEN Len(text)
                                                           ELSE SnippetLen)]

\* Formatter.result with the title put before the status
result_title_first(o, p) ==
    IF (o.code /\ "code" \notin DOMAIN p) \/ (o.body /\ "body" \notin DOMAIN p)
    THEN None
    ELSE Some([tag |-> "URL",
               fields |-> <<_url(p.url)>>
                    \o (IF o.title THEN <<_title(p.title)>> ELSE <<>>)
                    \o (IF o.code THEN <<_code(p.code)>> ELSE <<>>)
                    \o (IF o.body THEN <<_body(p.body)>> ELSE <<>>)])

\* Formatter.result(pieces): the fields joined by spaces behind "[URL] ", or
\* None when pieces[...] raises KeyError for a key the options ask for and
\* the pieces do not hold
result(o, p) ==
    IF (o.code /\ "code" \notin DOMAIN p) \/ (o.body /\ "body" \notin DOMAIN p)
    THEN None
    ELSE Some([tag |-> "URL",
               fields |-> <<_url(p.url)>>
                    \o (IF o.code THEN <<_code(p.code)>> ELSE <<>>)
                    \o (IF o.title THEN <<_title(p.title)>> ELSE <<>>)
                    \o (IF o.body THEN <<_body(p.body)>> ELSE <<>>)])

\* error_handler that sets the flag and returns [] on RESOURCE_EXHAUSTED, as
\* the handler inside _search of src/gdorker.py did
error_handler_swallow(eng, kind) ==
    IF eng = "google"
    THEN CASE kind = "RESOURCE_EXHAUSTED" ->
                [raises |-> FALSE, limit |-> TRUE, logs |-> {"resource_limit"}]
           [] kind = "INVALID_ARGUMENT" ->
                [raises |-> FALSE, limit |-> FALSE, logs |-> {"no_more_links"}]
           [] kind = "BAD_JSON" ->
                [raises |-> FALSE, limit |-> FALSE, logs |-> {"backend_error"}]
           [] OTHER ->
                [raises |-> TRUE, limit |-> FALSE, logs |-> {}]
    ELSE IF kind = "202"
         THEN [raises |-> FALSE, limit |-> TRUE, logs |-> {"resource_limit"}]
         ELSE [raises |-> FALSE, limit |-> FALSE, logs |-> {"backend_error"}]

\* error_handler without the INVALID_ARGUMENT branch: that status is raised
\* again like any other
error_handler_invalid_raises(eng, kind) ==
    IF eng = "google"
    THEN CASE kind = "RESOURCE_EXHAUSTED" ->
                [raises |-> TRUE, limit |-> TRUE, logs |-> {"resource_limit"}]
           [] kind = "BAD_JSON" ->
                [raises |-> FALSE, limit |-> FALSE, logs |-> {"backend_error"}]
           [] OTHER ->
                [raises |-> TRUE, limit |-> FALSE, logs |-> {}]
    ELSE IF kind = "202"
         THEN [raises |-> TRUE, limit |-> TRUE, logs |-> {"resource_limit"}]
         ELSE [raises |-> FALSE, limit |-> FALSE, logs |-> {"backend_error"}]

\* SearchClient.error_handler(e): what it does with a failure of the client
\* call: raise it again or return [], whether it sets self.is_limit_reached,
\* and what it logs
error_handler(eng, kind) ==
    IF eng = "google"
    THEN CASE kind = "RESOURCE_EXHAUSTED" ->
                [raises |-> TRUE, limit |-> TRUE, logs |-> {"resource_limit"}]
           [] kind = "INVALID_ARGUMENT" ->
                [raises |-> FALSE, limit |-> FALSE, logs |-> {"no_more_links"}]
           [] kind = "BAD_JSON" ->
                [raises |-> FALSE, limit |-> FALSE, logs |-> {"backend_error"}]
           [] OTHER ->
                [raises |-> TRUE, limit |-> FALSE, logs |-> {}]
    ELSE IF kind = "202"
         THEN [raises |-> TRUE, limit |-> TRUE, logs |-> {"resource_limit"}]
         ELSE [raises |-> FALSE, limit |-> FALSE, logs |-> {"backend_error"}]

-----------------------------------------------------------------------------
(* ConfigManager and the credentials of the Google client. *)

\* truth value of a Python value that is None or a string
Truthy(o) == o # None /\ Get(o) # ""

\* Python's a or b on such values
PyOr(a, b) == IF Truthy(a) THEN a ELSE b

\* ConfigManager.__init__, lines 227-228, before entrypoint reads the
\* command line; the client holds no keys
NoConfig ==
    [args_key |-> None, args_cx |-> None, file_key |-> "", file_cx |-> "",
     api_key |-> None, cse_id |-> None, client |-> None]

\* entrypoint, lines 465-466: the keys of the command line are stored when
\* both were given
set_api_keys(c) ==
    IF Truthy(c.args_key) /\ Truthy(c.args_cx)
    THEN [c EXCEPT !.api_key = c.args_key, !.cse_id = c.args_cx]
    ELSE c

\* ConfigManager.get_google_api_keys: the pair (api_key, cse_id). The test of
\* line 254 asks for a truthy string of length 0 and never raises
get_google_api_keys(c) ==
    <<PyOr(Some(c.file_key), c.api_key), PyOr(Some(c.file_cx), c.cse_id)>>

-----------------------------------------------------------------------------
(* The state after construction: main() is about to run in a fresh process. *)

NoHist ==
    [firstfetch |-> <<>>, sig |-> None, quota |-> None, returned |-> 0,
     npages |-> 0, entry |-> 0, cause |-> "none", ended |-> "none",
     response |-> None, exc |-> "none", covered |-> 0]

\* the options of a command line that sets none
DefaultOptions ==
    [title |-> TRUE, body |-> FALSE, code |-> FALSE, dest |-> None,
     debug |-> FALSE, engine |-> "google"]

\* a record without one of its keys
DropKey(r, k) == [x \in DOMAIN r \ {k} |-> r[x]]

\* session files this program did not write, given with --session: text that
\* is not JSON, JSON that is not an object, an object without one of the keys
\* main reads, an object without any
CorruptFiles ==
    LET good == SessionDump("a", DefaultOptions, Some("a"), per_page).value.v
    IN  {NotJson, JsonText(JNull), JsonText(JObject(<<>>))}
          \cup {JsonText(JObject(DropKey(good, k))) : k \in SessionKeys}

\* session files of an earlier run on the query file as it was then: their
\* current_query is a line the file no longer holds
StaleFiles == {Save(QueryPath, o, Some("z\n"), per_page) : o \in OptionSets}

\* a fresh run on a query or a query file, or a run started with --session on
\* a file that is absent or corrupt, or on a stale one
Init ==
    /\ pc = "main"
    /\ exit_status = "running"
    /\ \/ /\ resume = FALSE
          /\ file = None
          /\ \/ file_or_query = QueryPath /\ qfile \in RunFiles
             \/ file_or_query \in {"a"}
                  /\ qfile = [lines |-> <<>>, final_nl |-> FALSE]
       \/ /\ resume = TRUE
          /\ file \in {None} \cup {Some(t) : t \in CorruptFiles}
          /\ file_or_query = "a"
          /\ qfile = [lines |-> <<>>, final_nl |-> FALSE]
       \/ /\ resume = TRUE
          /\ file \in StaleFiles
          /\ file_or_query = "a"
          /\ qfile \in RunFiles
    /\ data = None
    /\ options \in OptionSets
    /\ engine = options.engine
    /\ client_limit = FALSE
    /\ current_query = None
    /\ offset = None
    /\ queries = <<>>
    /\ i = 0
    /\ d_offset = 0
    /\ d_query = None
    /\ d_limit = FALSE
    /\ start = 0
    /\ results = <<>>
    /\ pending = {}
    /\ emitted = 0
    /\ written = 0
    /\ log = {}
    /\ config = NoConfig
    /\ pieces = None
    /\ line = None
    /\ hist = NoHist

-----------------------------------------------------------------------------
(* main *)

\* the except clause of main without its save
Except_nosave(logs, h) ==
    /\ log' = (log \cup logs) \cup (IF i # 0 THEN {"query_error"} ELSE {})
    /\ pc' = "exited"
    /\ exit_status' = "1"
    /\ hist' = h
    /\ UNCHANGED file

\* the except clause of main logging the error of every query
Except_log_all(logs, h) ==
    /\ log' = (log \cup logs) \cup {"query_error"}
    /\ file' = Save(file_or_query, options, d_query, d_offset)
    /\ pc' = "exited"
    /\ exit_status' = "1"
    /\ hist' = h

\* the except clause of main, lines 358-362: an exception left query_results
\* (or the save of line 357); h is the record of observations afterwards
Except(logs, h) ==
    /\ log' = (log \cup logs) \cup (IF i # 0 THEN {"query_error"} ELSE {})
    /\ file' = Save(file_or_query, options, d_query, d_offset)
    /\ pc' = "exited"
    /\ exit_status' = "1"
    /\ hist' = h

\* an exception nothing catches: traceback, exit status 1
Uncaught(h) ==
    /\ pc' = "exited"
    /\ exit_status' = "1"
    /\ hist' = h
    /\ UNCHANGED <<file, log>>

\* main, lines 328-351: restore the session when resuming, build the logger
\* and the Dorker, load and cut the queue, install the SIGINT handler
MainStart ==
    /\ pc = "main"
    /\ IF resume /\ Restored(file, file_or_query, options).raises
       THEN /\ Uncaught([hist EXCEPT !.cause = "load_error"])
            /\ UNCHANGED <<data, file_or_query, options, offset, current_query,
                           queries, d_offset, d_query, d_limit, i>>
       ELSE /\ data' = IF resume
                       THEN Restored(file, file_or_query, options).data
                       ELSE None
            /\ file_or_query' = IF resume THEN Get(data').file_or_query
                                          ELSE file_or_query
            /\ options' = IF resume THEN Get(data').options ELSE options
            /\ offset' = IF resume THEN Some(Get(data').offset) ELSE None
            /\ current_query' = IF resume THEN Get(data').current_query ELSE None
            /\ \E qs \in load_queries(file_or_query', qfile) :
                 queries' = CutQueries(qs, current_query')
            /\ log' = {"using_engine"}
            /\ d_offset' = 0 /\ d_query' = None /\ d_limit' = FALSE
            /\ i' = 0
            /\ pc' = "for"
            /\ UNCHANGED <<exit_status, file, hist>>
    /\ UNCHANGED <<qfile, config, pieces, line, resume, engine, client_limit,
                   start, results, pending, emitted, written>>

\* main, lines 353-356, and query_results, lines 175-178: the next query of
\* the queue is entered with main's offset
QueryEnter ==
    /\ pc = "for"
    /\ i < Len(queries)
    /\ d_offset' = IF offset = None THEN 0 ELSE Get(offset)
    /\ d_query' = Some(queries[i + 1])
    /\ emitted' = 0
    /\ log' = {"query"}
    /\ pc' = "while"
    /\ hist' = [hist EXCEPT !.npages = 0, !.returned = 0, !.ended = "none",
                            !.entry = IF offset = None THEN 0 ELSE Get(offset),
                            !.covered = IF current_query = Some(queries[i + 1])
                                        THEN Get(offset) ELSE 0]
    /\ UNCHANGED <<exit_status, file, qfile, config, pieces, line, resume,
                   data, engine, client_limit, file_or_query, options,
                   current_query, offset, queries, i, d_limit, start, results,
                   pending, written>>

\* main, line 353: the queue is exhausted
LoopEnd ==
    /\ pc = "for"
    /\ i >= Len(queries)
    /\ pc' = "clean"
    /\ UNCHANGED <<exit_status, file, qfile, config, pieces, line, resume,
                   data, engine, client_limit, file_or_query, options,
                   current_query, offset, queries, i, d_offset, d_query,
                   d_limit, start, results, pending, emitted, written, log,
                   hist>>

\* WhileTop calling _search with the start of the page after self.offset
WhileTop_next ==
    /\ pc = "while"
    /\ IF d_limit
       THEN pc' = "save" /\ UNCHANGED <<start, hist>>
       ELSE /\ pc' = "fetch"
            /\ start' = d_offset + per_page
            /\ hist' = IF hist.npages = 0
                       THEN [hist EXCEPT !.firstfetch =
                                Append(@, <<Get(d_query), d_offset + per_page>>)]
                       ELSE hist
    /\ UNCHANGED <<exit_status, file, qfile, config, pieces, line, resume,
                   data, engine, client_limit, file_or_query, options,
                   current_query, offset, queries, i, d_offset, d_query,
                   d_limit, results, pending, emitted, written, log>>

\* query_results, lines 179-181: the loop test, the page line, and the call of
\* _search with start = self.offset
WhileTop ==
    /\ pc = "while"
    /\ IF d_limit
       THEN pc' = "save" /\ UNCHANGED <<start, hist>>
       ELSE /\ pc' = "fetch"
            /\ start' = d_offset
            /\ hist' = IF hist.npages = 0
                       THEN [hist EXCEPT !.firstfetch =
                                Append(@, <<Get(d_query), d_offset>>)]
                       ELSE hist
    /\ UNCHANGED <<exit_status, file, qfile, config, pieces, line, resume,
                   data, engine, client_limit, file_or_query, options,
                   current_query, offset, queries, i, d_offset, d_query,
                   d_limit, results, pending, emitted, written, log>>

\* _search returning the items after the first
_search_after_first(res) ==
    IF "items" \in DOMAIN res /\ Len(res.items) > 0 THEN Tail(res.items)
    ELSE <<>>

\* _search, lines 139-143, on the response res of the client: the list under
\* 'items', [] when the key is missing
_search(res) == IF "items" \in DOMAIN res THEN res.items ELSE <<>>

\* responses without results: no 'items' key (Google), an empty list (the
\* DuckDuckGo client, line 289)
EmptyResponses == {[kind |-> "customsearch#search"], [items |-> <<>>]}

\* the item lists a call of the client may answer with; prev is the response
\* to the previous call for the same query, None before the first. The Google
\* client passes start on (lines 272-274) and the API answers with the page
\* at start or with none; the DuckDuckGo client does not read start and asks
\* for the whole result set of the query on every call (lines 277-290), so a
\* query that had results has the same results on its next call
client(eng, prev) ==
    IF eng = "duckduckgo" /\ prev # None
    THEN {Get(prev).items}
    ELSE Pages \cup {<<>>}

\* _search, lines 138-143: the client returns a page with items
FetchItems ==
    /\ pc = "fetch"
    /\ start < MaxPages * per_page
    /\ \E p \in client(engine, hist.response) :
         /\ Len(p) > 0
         /\ results' = _search([items |-> p])
         /\ hist' = [hist EXCEPT !.returned = @ + Len(p), !.npages = @ + 1,
                                 !.response = Some([items |-> p])]
    /\ pc' = "print"
    /\ UNCHANGED <<exit_status, file, qfile, config, pieces, line, resume,
                   data, engine, client_limit, file_or_query, options,
                   current_query, offset, queries, i, d_offset, d_query,
                   d_limit, start, pending, emitted, written, log>>

\* FetchEmpty taking an empty page for the limit: the Dorker's flag is set
FetchEmpty_limit ==
    /\ pc = "fetch"
    /\ results' = <<>>
    /\ log' = log \cup {"no_more_links"}
    /\ d_limit' = TRUE
    /\ pc' = "print"
    /\ hist' = [hist EXCEPT !.ended = "empty", !.response = None]
    /\ UNCHANGED <<exit_status, file, qfile, config, pieces, line, resume,
                   data, engine, client_limit, file_or_query, options,
                   current_query, offset, queries, i, d_offset, d_query,
                   start, pending, emitted, written>>

\* _search, lines 139-142: the client returns no items
FetchEmpty ==
    /\ pc = "fetch"
    /\ <<>> \in client(engine, hist.response)
    /\ \E res \in EmptyResponses :
         /\ Len(_search(res)) = 0
         /\ results' = <<>>
    /\ log' = log \cup {"no_more_links"}
    /\ pc' = "print"
    /\ hist' = [hist EXCEPT !.ended = "empty", !.response = None]
    /\ UNCHANGED <<exit_status, file, qfile, config, pieces, line, resume,
                   data, engine, client_limit, file_or_query, options,
                   current_query, offset, queries, i, d_offset, d_query,
                   d_limit, start, pending, emitted, written>>

\* FetchError with the classifier setting the flag of the Dorker
FetchError_dorker_flag ==
    /\ pc = "fetch"
    /\ \E kind \in Failures(engine) :
         LET h == error_handler(engine, kind)
             quota == IF kind = QuotaSignal(engine)
                      THEN Some([query |-> Get(d_query), start |-> start, pos |-> i])
                      ELSE hist.quota
         IN  /\ d_limit' = (d_limit \/ h.limit)
             /\ IF h.raises
                THEN /\ Except(h.logs, [hist EXCEPT !.quota = quota,
                                !.ended = kind,
                                !.cause = IF h.limit THEN "quota" ELSE "error"])
                     /\ UNCHANGED results
                ELSE /\ results' = <<>>
                     /\ log' = log \cup h.logs
                     /\ pc' = "print"
                     /\ hist' = [hist EXCEPT !.ended = kind, !.quota = quota,
                                             !.response = None]
                     /\ UNCHANGED <<file, exit_status>>
    /\ UNCHANGED <<qfile, config, pieces, line, resume, data, engine,
                   file_or_query, options, current_query, offset, queries, i,
                   d_offset, d_query, client_limit, start, pending, emitted,
                   written>>

\* _search, lines 144-145, and error_handler: the client call raises
FetchError ==
    /\ pc = "fetch"
    /\ \E kind \in Failures(engine) :
         LET h == error_handler(engine, kind)
             quota == IF kind = QuotaSignal(engine)
                      THEN Some([query |-> Get(d_query), start |-> start, pos |-> i])
                      ELSE hist.quota
         IN  /\ client_limit' = (client_limit \/ h.limit)
             /\ IF h.raises
                THEN /\ Except(h.logs, [hist EXCEPT !.quota = quota,
                                !.ended = kind,
                                !.cause = IF h.limit THEN "quota" ELSE "error"])
                     /\ UNCHANGED results
                ELSE /\ results' = <<>>
                     /\ log' = log \cup h.logs
                     /\ pc' = "print"
                     /\ hist' = [hist EXCEPT !.ended = kind, !.quota = quota,
                                             !.response = None]
                     /\ UNCHANGED <<file, exit_status>>
    /\ UNCHANGED <<qfile, config, pieces, line, resume, data, engine,
                   file_or_query, options, current_query, offset, queries, i,
                   d_offset, d_query, d_limit, start, pending, emitted,
                   written>>

\* _print_results, lines 164-167: the page is handed to the live fetches when
\* the formatter is extended; otherwise the loop over its items begins
PrintResults ==
    /\ pc = "print"
    /\ written' = 0
    /\ IF is_extended(options)
       THEN pending' = 1..Len(results) /\ pc' = "live"
       ELSE /\ pc' = IF Len(results) = 0 THEN "printed" ELSE "emit"
            /\ UNCHANGED pending
    /\ UNCHANGED <<exit_status, file, qfile, config, pieces, line, resume,
                   data, engine, client_limit, file_or_query, options,
                   current_query, offset, queries, i, d_offset, d_query,
                   d_limit, start, results, emitted, log, hist>>

\* _print_results_extended, lines 148-154: one live fetch of the page completes
LiveDone ==
    /\ pc = "live"
    /\ \E k \in pending : pending' = pending \ {k}
    /\ UNCHANGED <<pc, exit_status, file, qfile, config, pieces, line, resume,
                   data, engine, client_limit, file_or_query, options,
                   current_query, offset, queries, i, d_offset, d_query,
                   d_limit, start, results, emitted, written, log, hist>>

\* LiveFail treating the failed fetch as absent data and going on to the loop
LiveFail_absent ==
    /\ pc = "live"
    /\ pending # {}
    /\ pending' = {}
    /\ pc' = IF Len(results) = 0 THEN "printed" ELSE "emit"
    /\ hist' = [hist EXCEPT !.exc = "ClientError"]
    /\ UNCHANGED <<exit_status, file, qfile, config, pieces, line, resume,
                   data, engine, client_limit, file_or_query, options,
                   current_query, offset, queries, i, d_offset, d_query,
                   d_limit, start, results, emitted, written, log>>

\* _print_results_extended, line 154: a live fetch fails, asyncio.gather raises
LiveFail ==
    /\ pc = "live"
    /\ pending # {}
    /\ Except({}, [hist EXCEPT !.cause = "error", !.exc = "ClientError"])
    /\ UNCHANGED <<qfile, config, pieces, line, resume, data, engine,
                   client_limit, file_or_query, options, current_query,
                   offset, queries, i, d_offset, d_query, d_limit, start,
                   results, pending, emitted, written>>

\* LiveEmit starting the loop over the items while fetches are still out
LiveEmit_streaming ==
    /\ pc = "live"
    /\ pc' = IF Len(results) = 0 THEN "printed" ELSE "emit"
    /\ UNCHANGED <<exit_status, file, qfile, config, pieces, line, resume,
                   data, engine, client_limit, file_or_query, options,
                   current_query, offset, queries, i, d_offset, d_query,
                   d_limit, start, results, pending, emitted, written, log,
                   hist>>

\* _print_results_extended, line 154: every fetch is in, gather returns and
\* the loop over the fetched items begins
LiveEmit ==
    /\ pc = "live"
    /\ pending = {}
    /\ pc' = IF Len(results) = 0 THEN "printed" ELSE "emit"
    /\ UNCHANGED <<exit_status, file, qfile, config, pieces, line, resume,
                   data, engine, client_limit, file_or_query, options,
                   current_query, offset, queries, i, d_offset, d_query,
                   d_limit, start, results, pending, emitted, written, log,
                   hist>>

\* the pieces built for the item at index n of the page: lines 156-161 after
\* the live fetches, lines 168-171 without them
PiecesOf(o, page, n) ==
    IF is_extended(o)
    THEN [url |-> page[n], title |-> "X", code |-> 200, body |-> [body |-> None]]
    ELSE [url |-> page[n], title |-> "X"]

\* one iteration of the loop of lines 155-162 or 167-172: the pieces of the
\* next item are formatted and the line is written; a KeyError of
\* Formatter.result leaves the loop and the query. After the last item the
\* printer returns
EmitLine ==
    /\ pc = "emit"
    /\ written < Len(results)
    /\ IF result(options, PiecesOf(options, results, written + 1)) = None
       THEN /\ Except({}, [hist EXCEPT !.cause = "error", !.exc = "KeyError"])
            /\ UNCHANGED <<written, emitted>>
       ELSE /\ written' = written + 1
            /\ emitted' = emitted + 1
            /\ pc' = IF written' = Len(results) THEN "printed" ELSE "emit"
            /\ hist' = IF written' = Len(results) /\ start = hist.covered
                       THEN [hist EXCEPT !.covered = start + per_page]
                       ELSE hist
            /\ UNCHANGED <<file, log, exit_status>>
    /\ UNCHANGED <<qfile, config, pieces, line, resume, data, engine,
                   client_limit, file_or_query, options, current_query,
                   offset, queries, i, d_offset, d_query, d_limit, start,
                   results, pending>>

\* Advance moving the offset by the number of results of the page
Advance_by_len ==
    /\ pc = "printed"
    /\ IF Len(results) = 0
       THEN pc' = "save" /\ UNCHANGED d_offset
       ELSE pc' = "sleep" /\ d_offset' = d_offset + Len(results)
    /\ UNCHANGED <<exit_status, file, qfile, config, pieces, line, resume,
                   data, engine, client_limit, file_or_query, options,
                   current_query, offset, queries, i, d_query, d_limit, start,
                   results, pending, emitted, written, log, hist>>

\* query_results, lines 183-185: an empty page leaves the loop, any other
\* page advances the offset
Advance ==
    /\ pc = "printed"
    /\ IF Len(results) = 0
       THEN pc' = "save" /\ UNCHANGED d_offset
       ELSE pc' = "sleep" /\ d_offset' = d_offset + per_page
    /\ UNCHANGED <<exit_status, file, qfile, config, pieces, line, resume,
                   data, engine, client_limit, file_or_query, options,
                   current_query, offset, queries, i, d_query, d_limit, start,
                   results, pending, emitted, written, log, hist>>

\* query_results, line 186: time.sleep(1) returns
Sleep ==
    /\ pc = "sleep"
    /\ pc' = "while"
    /\ UNCHANGED <<exit_status, file, qfile, config, pieces, line, resume,
                   data, engine, client_limit, file_or_query, options,
                   current_query, offset, queries, i, d_offset, d_query,
                   d_limit, start, results, pending, emitted, written, log,
                   hist>>

\* main without the save of line 357, as main of src/gdorker.py was
SaveAfterQuery_nosave ==
    /\ pc = "save"
    /\ pc' = "limit"
    /\ UNCHANGED <<exit_status, file, qfile, config, pieces, line, resume,
                   data, engine, client_limit, file_or_query, options,
                   current_query, offset, queries, i, d_offset, d_query,
                   d_limit, start, results, pending, emitted, written, log,
                   hist>>

\* main, line 357: query_results returned, the session is saved
SaveAfterQuery ==
    /\ pc = "save"
    /\ file' = Save(file_or_query, options, d_query, d_offset)
    /\ pc' = "limit"
    /\ UNCHANGED <<exit_status, qfile, config, pieces, line, resume, data,
                   engine, client_limit, file_or_query, options,
                   current_query, offset, queries, i, d_offset, d_query,
                   d_limit, start, results, pending, emitted, written, log,
                   hist>>

\* main, lines 363-365: exit when the Dorker's limit flag is set, otherwise
\* on to the next query
LimitCheck ==
    /\ pc = "limit"
    /\ IF d_limit
       THEN /\ file' = Save(file_or_query, options, d_query, d_offset)
            /\ pc' = "exited"
            /\ exit_status' = "1"
            /\ hist' = [hist EXCEPT !.cause = "limit"]
            /\ UNCHANGED i
       ELSE /\ i' = i + 1
            /\ pc' = "for"
            /\ UNCHANGED <<file, exit_status, hist>>
    /\ UNCHANGED <<qfile, config, pieces, line, resume, data, engine,
                   client_limit, file_or_query, options, current_query,
                   offset, queries, d_offset, d_query, d_limit, start,
                   results, pending, emitted, written, log>>

\* main, line 366, and Session.clean: os.remove(self.file), which raises
\* FileNotFoundError when the file is absent; then main returns
Clean ==
    /\ pc = "clean"
    /\ IF file = None
       THEN Uncaught([hist EXCEPT !.cause = "clean_error"])
       ELSE /\ file' = None
            /\ pc' = "exited"
            /\ exit_status' = "0"
            /\ hist' = [hist EXCEPT !.cause = "normal"]
            /\ UNCHANGED log
    /\ UNCHANGED <<qfile, config, pieces, line, resume, data, engine,
                   client_limit, file_or_query, options, current_query,
                   offset, queries, i, d_offset, d_query, d_limit, start,
                   results, pending, emitted, written>>

\* main, lines 348-351: the handler installed for SIGINT runs at the point the
\* process has reached. Its lambda reads search_client, a name bound only as
\* a local of entrypoint, so it raises NameError there before
\* handle_exit_signal is called. Inside the client call the exception goes
\* through _search's except clause to error_handler like a failure of the
\* backend: with google e.content is missing and AttributeError leaves
\* error_handler, with duckduckgo the wrapped error carries no 202. Inside
\* the try of main it reaches the except clause; elsewhere nothing catches it
Sigint ==
    /\ pc \in {"for", "while", "fetch", "print", "live", "emit", "printed",
               "sleep", "save", "limit", "clean"}
    /\ LET h == [hist EXCEPT !.cause = "sigint",
                    !.sig = Some([query |-> d_query, offset |-> d_offset,
                                  at |-> pc])]
           e == error_handler(engine, IF engine = "google" THEN "NO_CONTENT" ELSE "OTHER")
       IN  IF pc \in {"for", "limit", "clean"}
           THEN Uncaught(h) /\ UNCHANGED results
           ELSE IF pc = "fetch" /\ ~e.raises
                THEN /\ results' = <<>>
                     /\ log' = log \cup e.logs
                     /\ pc' = "print"
                     /\ hist' = [h EXCEPT !.cause = hist.cause, !.ended = "OTHER",
                                          !.response = None]
                     /\ UNCHANGED <<file, exit_status>>
                ELSE Except({}, h) /\ UNCHANGED results
    /\ UNCHANGED <<qfile, config, pieces, line, resume, data, engine,
                   client_limit, file_or_query, options, current_query,
                   offset, queries, i, d_offset, d_query, d_limit, start,
                   pending, emitted, written>>

\* entrypoint, lines 442-469: a later process is started with --session on
\* the file the previous one left. Its command line gives the engine of the
\* SearchClient; the options it gives are replaced at line 334 before
\* anything reads them, so only their engine is drawn here
Restart ==
    /\ pc = "exited"
    /\ file # None
    /\ resume' = TRUE
    /\ data' = None
    /\ \E e \in Engines : options' = [options EXCEPT !.engine = e] /\ engine' = e
    /\ client_limit' = FALSE
    /\ pc' = "main"
    /\ exit_status' = "running"
    /\ current_query' = None /\ offset' = None /\ queries' = <<>> /\ i' = 0
    /\ d_offset' = 0 /\ d_query' = None /\ d_limit' = FALSE
    /\ start' = 0 /\ results' = <<>> /\ pending' = {}
    /\ emitted' = 0 /\ written' = 0 /\ log' = {}
    /\ hist' = NoHist
    /\ UNCHANGED <<file, qfile, config, pieces, line, file_or_query>>

Next ==
    \/ MainStart \/ QueryEnter \/ LoopEnd \/ WhileTop
    \/ FetchItems \/ FetchEmpty \/ FetchError
    \/ PrintResults \/ LiveDone \/ LiveFail \/ LiveEmit \/ EmitLine
    \/ Advance \/ Sleep \/ SaveAfterQuery \/ LimitCheck \/ Clean
    \/ Sigint \/ Restart

Spec == Init /\ [][Next]_vars

TypeOK ==
    /\ pc \in {"main", "for", "while", "fetch", "print", "live", "emit", "printed",
               "sleep", "save", "limit", "clean", "exited"}
    /\ exit_status \in {"running", "0", "1"}
    /\ d_offset \in Nat

-----------------------------------------------------------------------------
(* load_queries on its own: every query file of up to MaxLines lines. *)

LoadTexts == {"a", "b", "c", "d"}

SeqsUpTo(S, n) == UNION {[1..k -> S] : k \in 0..n}

\* the variables a specification of one function leaves at rest
AtRest ==
    /\ exit_status = "running"
    /\ resume = FALSE
    /\ data = None
    /\ engine = "google"
    /\ client_limit = FALSE
    /\ current_query = None
    /\ offset = None
    /\ queries = <<>>
    /\ i = 0
    /\ d_limit = FALSE
    /\ start = 0
    /\ results = <<>>
    /\ pending = {}
    /\ emitted = 0
    /\ written = 0
    /\ log = {}
    /\ hist = NoHist

InitLoad ==
    /\ pc = "load"
    /\ AtRest
    /\ config = NoConfig
    /\ pieces = None
    /\ line = None
    /\ file = None
    /\ options = DefaultOptions
    /\ d_query = None
    /\ d_offset = 0
    /\ \/ /\ file_or_query = QueryPath
          /\ qfile \in [lines : SeqsUpTo(LoadTexts, MaxLines), final_nl : BOOLEAN]
          /\ Len(qfile.lines) = 0 => ~qfile.final_nl
       \/ /\ file_or_query \in LoadTexts
          /\ qfile = [lines |-> <<>>, final_nl |-> FALSE]

\* queries = load_queries(file_or_query)
LoadStep ==
    /\ pc = "load"
    /\ \E qs \in load_queries(file_or_query, qfile) : queries' = qs
    /\ pc' = "loaded"
    /\ UNCHANGED <<exit_status, file, qfile, config, pieces, line, resume,
                   data, engine, client_limit, file_or_query, options,
                   current_query, offset, i, d_offset, d_query, d_limit,
                   start, results, pending, emitted, written, log, hist>>

NextLoad == LoadStep

SpecLoad == InitLoad /\ [][NextLoad]_vars

-----------------------------------------------------------------------------
(* Session.save and Session.load on their own: every RunState. *)

SessionOptions ==
    [title : BOOLEAN, body : BOOLEAN, code : BOOLEAN,
     dest : {None, Some("out.txt")}, debug : BOOLEAN, engine : Engines]

InitSession ==
    /\ pc = "session"
    /\ AtRest
    /\ config = NoConfig
    /\ pieces = None
    /\ line = None
    /\ qfile = [lines |-> <<>>, final_nl |-> FALSE]
    /\ file \in {None, Save("old.txt", DefaultOptions, Some("z\n"), 7)}
    /\ file_or_query \in {QueryPath, "a"}
    /\ options \in SessionOptions
    /\ d_query \in {None, Some("a\n"), Some("b")}
    /\ d_offset \in 0..MaxSessionOffset

\* session.save(file_or_query, logger, gs)
SessionSave ==
    /\ pc = "session"
    /\ file' = Save(file_or_query, options, d_query, d_offset)
    /\ pc' = "session_saved"
    /\ UNCHANGED <<exit_status, qfile, config, pieces, line, resume, data,
                   engine, client_limit, file_or_query, options,
                   current_query, offset, queries, i, d_offset, d_query,
                   d_limit, start, results, pending, emitted, written, log,
                   hist>>

\* data = session.load()
SessionLoadStep ==
    /\ pc = "session_saved"
    /\ data' = Some(SessionLoad(Get(file)))
    /\ pc' = "session_loaded"
    /\ UNCHANGED <<exit_status, file, qfile, config, pieces, line, resume,
                   engine, client_limit, file_or_query, options,
                   current_query, offset, queries, i, d_offset, d_query,
                   d_limit, start, results, pending, emitted, written, log,
                   hist>>

NextSession == SessionSave \/ SessionLoadStep

SpecSession == InitSession /\ [][NextSession]_vars

-----------------------------------------------------------------------------
(* The credentials of the Google client on their own: every command line   *)
(* and every configuration file.                                           *)

Keys == {"k1", "k2"}

\* args.api_key and args.cx: absent, empty or a key
ArgKeys == {None, Some("")} \cup {Some(k) : k \in Keys}

\* google_api_key and google_cse_id of config.json: "" as _ensure_config_exists
\* writes them and as api_keys.get(name, '') gives for a missing one, or a key
FileKeys == {""} \cup Keys

InitConfig ==
    /\ pc = "entrypoint"
    /\ AtRest
    /\ file = None
    /\ qfile = [lines |-> <<>>, final_nl |-> FALSE]
    /\ file_or_query = "a"
    /\ options = DefaultOptions
    /\ d_query = None
    /\ d_offset = 0
    /\ pieces = None
    /\ line = None
    /\ \E ak \in ArgKeys, ax \in ArgKeys, fk \in FileKeys, fx \in FileKeys :
         config = [NoConfig EXCEPT !.args_key = ak, !.args_cx = ax,
                                   !.file_key = fk, !.file_cx = fx]

\* entrypoint, lines 464-466
ConfigSet ==
    /\ pc = "entrypoint"
    /\ config' = set_api_keys(config)
    /\ pc' = "configured"
    /\ UNCHANGED <<exit_status, file, qfile, pieces, line, resume, data,
                   engine, client_limit, file_or_query, options,
                   current_query, offset, queries, i, d_offset, d_query,
                   d_limit, start, results, pending, emitted, written, log,
                   hist>>

\* entrypoint, line 468, and SearchClient.__init__, lines 264-266
ClientInit ==
    /\ pc = "configured"
    /\ engine = "google"
    /\ config' = [config EXCEPT !.client = Some(get_google_api_keys(config))]
    /\ pc' = "client"
    /\ UNCHANGED <<exit_status, file, qfile, pieces, line, resume, data,
                   engine, client_limit, file_or_query, options,
                   current_query, offset, queries, i, d_offset, d_query,
                   d_limit, start, results, pending, emitted, written, log,
                   hist>>

NextConfig == ConfigSet \/ ClientInit

SpecConfig == InitConfig /\ [][NextConfig]_vars

-----------------------------------------------------------------------------
(* Formatter.result on its own: every set of options and the pieces        *)
(* _print_results builds for an item under them.                           *)

FormatOptions ==
    [title : BOOLEAN, body : BOOLEAN, code : BOOLEAN, dest : {None},
     debug : {FALSE}, engine : Engines]

\* item['link'] and item['title'] of a result
Urls == {"https://x.test", "https://y.test/login"}
Titles == {"X", "Login"}

\* response.status and response.text() of the live fetch of a link: a page
\* without body element, an empty body, a body with whitespace runs, a body
\* longer than the snippet
Statuses == {200, 301, 404, 100}
Htmls ==
    {[body |-> None], [body |-> Some(<<>>)],
     [body |-> Some(<<" ", "a", "\n", "\t", "b", " ">>)],
     [body |-> Some([k \in 1..(SnippetLen + 1) |-> "a"])]}

\* the pieces of lines 155-161 (extended) and of lines 167-171
PiecesFor(o) ==
    IF is_extended(o)
    THEN [url : Urls, title : Titles, code : Statuses, body : Htmls]
    ELSE [url : Urls, title : Titles]

InitFormat ==
    /\ pc = "url"
    /\ AtRest
    /\ file = None
    /\ qfile = [lines |-> <<>>, final_nl |-> FALSE]
    /\ file_or_query = "a"
    /\ options \in FormatOptions
    /\ d_query = None
    /\ d_offset = 0
    /\ config = NoConfig
    /\ \E p \in PiecesFor(options) : pieces = Some(p)
    /\ line = None

\* Logger.url, line 97: line = self.formatter.result(pieces)
FormatStep ==
    /\ pc = "url"
    /\ line' = result(options, Get(pieces))
    /\ pc' = IF line' = None THEN "key_error" ELSE "written"
    /\ UNCHANGED <<exit_status, file, qfile, config, pieces, resume, data,
                   engine, client_limit, file_or_query, options,
                   current_query, offset, queries, i, d_offset, d_query,
                   d_limit, start, results, pending, emitted, written, log,
                   hist>>

NextFormat == FormatStep

SpecFormat == InitFormat /\ [][NextFormat]_vars

-----------------------------------------------------------------------------
(* The claims. *)

\* the queries a process has fetched for, in the order of their first fetch
Executed == [k \in 1..Len(hist.firstfetch) |-> hist.firstfetch[k][1]]

\* the distinct elements of a list, in the order of their first occurrence
RECURSIVE Dedup(_)
Dedup(s) ==
    IF Len(s) = 0 THEN <<>>
    ELSE LET r == Dedup(SubSeq(s, 1, Len(s) - 1))
         IN  IF s[Len(s)] \in Range(r) THEN r ELSE Append(r, s[Len(s)])

\* the queries of the source, in source order
SourceOrder ==
    IF file_or_query = QueryPath THEN Dedup(ReadLines(qfile)) ELSE <<file_or_query>>

\* the query a line of the query file holds: the line without its terminator
QueryOf(l) == CHOOSE t \in LoadTexts : l = t \/ l = t \o "\n"

\* C1: once SIGINT has arrived after the handler was installed, the session
\* file holds the query in flight and its offset and the process has ended
\* with exit status 0.
C1_InterruptSavesAndExitsZero ==
    hist.sig # None =>
        /\ pc = "exited"
        /\ exit_status = "0"
        /\ file = Save(file_or_query, options, Get(hist.sig).query, Get(hist.sig).offset)

\* C2: when the backend signals quota exhaustion for the page at start index
\* k of query q, the Dorker's offset stays k, the session file holds
\* current_query = q and offset = k, and the process has exited with status 1,
\* whatever the position of q in the queue.
C2_QuotaStopsAtFailingPage ==
    hist.quota # None =>
        /\ pc = "exited"
        /\ exit_status = "1"
        /\ d_offset = Get(hist.quota).start
        /\ file # None
        /\ SessionLoad(Get(file)).current_query = Some(Get(hist.quota).query)
        /\ SessionLoad(Get(file)).offset = Get(hist.quota).start

\* C2 witness: quota exhaustion on page 3 (start 20) of the first query.
C2_Witness ==
    /\ hist.quota # None
    /\ Get(hist.quota).start = 2 * per_page
    /\ Get(hist.quota).pos = 0
    /\ exit_status = "1"
    /\ file # None

\* C3: a run resumed at the second of three source queries that completes has
\* fetched nothing for the first query, has made its first fetch for the
\* second query at the saved offset, and has run the third query after it.
C3_ResumeSecondOfThree ==
    ( /\ pc = "exited" /\ hist.cause = "normal" /\ hist.sig = None
      /\ resume
      /\ file_or_query = QueryPath
      /\ Len(ReadLines(qfile)) = 3
      /\ current_query = Some(ReadLines(qfile)[2]) )
    => LET L == ReadLines(qfile)
           ff == hist.firstfetch
       IN  /\ \A k \in 1..Len(ff) : ff[k][1] # L[1]
           /\ Len(ff) = 2
           /\ ff[1] = <<L[2], Get(offset)>>
           /\ ff[2][1] = L[3]

\* C4: when every query of a non-empty queue has run to Done without quota
\* exhaustion, error or interrupt, the process ends with exit status 0, no
\* session file is left, and every result the backend returned for the last
\* query was emitted as one line (2 lines for 2 results then an empty page).
C4_CleanCompletion ==
    ( /\ pc = "exited"
      /\ i = Len(queries) /\ i > 0
      /\ hist.sig = None )
    => /\ exit_status = "0"
       /\ file = None
       /\ emitted = hist.returned

\* C4 witness: a single literal query, 2 results then an empty page.
C4_Witness ==
    /\ pc = "exited" /\ exit_status = "0" /\ file = None
    /\ ~resume
    /\ file_or_query = "a" /\ queries = <<"a">> /\ i = 1
    /\ hist.sig = None
    /\ hist.npages = 1 /\ hist.returned = 2 /\ hist.ended = "empty"
    /\ emitted = 2

\* C5: Session.load after Session.save returns the RunState that was saved,
\* whatever the file held before.
C5_SaveLoadRoundTrip ==
    pc = "session_loaded" =>
        Get(data) = [file_or_query |-> file_or_query, options |-> options,
                     current_query |-> d_query, offset |-> d_offset]

\* C5 witness: a state with no current query, a destination file and a
\* three-digit offset went through save and load.
C5_Witness ==
    /\ pc = "session_loaded"
    /\ Get(data).current_query = None
    /\ Get(data).options.dest = Some("out.txt")
    /\ Get(data).offset = 105

\* a session file that is not a well-formed record with the four fields
\* file_or_query, options, current_query and offset
NotWellFormed(f) ==
    \/ f = None
    \/ ~Get(f).parses
    \/ Get(f).value.t # "object"
    \/ \E k \in {"file_or_query", "options", "current_query", "offset"} :
         k \notin DOMAIN Get(f).value.v

\* C6: the Dorker's offset and the offset in a well-formed session file are
\* multiples of the page size; a client call in flight was issued with the Dorker's
\* offset as start, and the first client call of a resumed run is for the
\* saved current_query at the saved offset.
C6_OffsetPageAligned ==
    /\ d_offset % per_page = 0
    /\ ~NotWellFormed(file) => SessionLoad(Get(file)).offset % per_page = 0
    /\ pc = "fetch" => start = d_offset
    /\ (resume /\ Len(hist.firstfetch) > 0)
          => hist.firstfetch[1] = <<Get(current_query), Get(offset)>>

\* C6 witness: a resumed run fetching at the non-zero offset of its session.
C6_Witness ==
    /\ resume
    /\ pc = "fetch"
    /\ start = per_page
    /\ file # None
    /\ SessionLoad(Get(file)).offset = per_page

\* C7: in a query entered with offset 0, after N pages that returned items
\* the offset is N * 10 when the loop comes round, and the next client call
\* has start = N * 10.
C7_OffsetAfterNPages ==
    (hist.entry = 0 /\ pc \in {"while", "fetch"}) =>
        /\ d_offset = hist.npages * per_page
        /\ pc = "fetch" => start = hist.npages * per_page

\* C7 witness: the third client call of a query entered at 0.
C7_Witness ==
    /\ pc = "fetch"
    /\ hist.entry = 0
    /\ hist.npages = 2
    /\ start = 2 * per_page

\* C8: a page without items and without error ends the query with the offset
\* left at the start of that page; unless an interrupt arrives, the session
\* is saved, the process keeps running and the next query of the queue is
\* entered.
C8_EmptyPageEndsQueryOnly ==
    [][ /\ (pc = "fetch" /\ hist'.ended = "empty" /\ hist.ended # "empty")
            => (pc' = "print" /\ d_offset' = start /\ exit_status' = "running")
        /\ (hist.ended = "empty" /\ hist'.cause # "sigint"
              /\ pc \in {"print", "live", "printed", "save", "limit", "for"})
            => /\ exit_status' = "running" \/ (pc = "for" /\ i >= Len(queries))
               /\ pc \in {"print", "live", "printed", "save", "limit"}
                    => d_offset' = d_offset
               /\ pc = "printed" => pc' = "save"
               /\ pc = "save" => (pc' = "limit" /\ file' # None)
               /\ pc = "limit" => (pc' = "for" /\ i' = i + 1)
               /\ (pc = "for" /\ i < Len(queries))
                    => (pc' = "while" /\ d_query' = Some(queries[i + 1]))
      ]_vars

\* C8 witness: the first query ended on an empty page 2 and a next query is
\* about to be entered.
C8_Witness ==
    /\ pc = "for"
    /\ hist.ended = "empty"
    /\ hist.npages = 1
    /\ d_offset = per_page
    /\ i = 1 /\ i < Len(queries)
    /\ exit_status = "running"

\* C9: a run that completes has executed the queries of the source in source
\* order, and on resume exactly those at and after the saved current_query.
C9_QueueOrder ==
    (pc = "exited" /\ hist.cause = "normal" /\ hist.sig = None) =>
        Executed = IF resume THEN CutQueries(SourceOrder, current_query)
                             ELSE SourceOrder

\* C10: load_queries on a readable file returns every distinct query of the
\* file exactly once; 5 lines with one duplicated query give 4 queries.
C10_LoadQueriesDistinct ==
    (pc = "loaded" /\ file_or_query = QueryPath) =>
        /\ \A a, b \in 1..Len(queries) :
              QueryOf(queries[a]) = QueryOf(queries[b]) => a = b
        /\ {QueryOf(queries[k]) : k \in 1..Len(queries)} = Range(qfile.lines)
        /\ (Len(qfile.lines) = 5 /\ Cardinality(Range(qfile.lines)) = 4)
              => Len(queries) = 4

\* C11: when the command line and the configuration file both give a
\* non-empty API key and a non-empty CSE id, the Google client takes the
\* keys of the command line
C11_CommandLineKeysWin ==
    ( /\ pc = "client"
      /\ Truthy(config.args_key) /\ Truthy(config.args_cx)
      /\ config.file_key # "" /\ config.file_cx # "" )
    => config.client = Some(<<config.args_key, config.args_cx>>)

\* a failure of one of the kinds K ends the query it occurs in and nothing
\* else: the handler returns an empty page, the offset stays at the start of
\* that page and, unless an interrupt arrives, the session is saved and the
\* next query of the queue is entered
EndsQueryOnly(K) ==
    /\ (pc = "fetch" /\ hist'.ended \in K /\ hist.ended \notin K)
        => /\ pc' = "print" /\ results' = <<>>
           /\ d_offset' = start /\ exit_status' = "running"
    /\ (hist.ended \in K /\ hist'.cause # "sigint"
          /\ pc \in {"print", "live", "printed", "save", "limit", "for"})
        => /\ exit_status' = "running" \/ (pc = "for" /\ i >= Len(queries))
           /\ pc \in {"print", "live", "printed", "save", "limit"}
                => d_offset' = d_offset
           /\ pc = "printed" => pc' = "save"
           /\ pc = "save" => (pc' = "limit" /\ file' # None)
           /\ pc = "limit" => (pc' = "for" /\ i' = i + 1)
           /\ (pc = "for" /\ i < Len(queries))
                => (pc' = "while" /\ d_query' = Some(queries[i + 1]))

\* the failures of the client call that are not the quota signal: a Google
\* status other than RESOURCE_EXHAUSTED and INVALID_ARGUMENT, an unparsable
\* Google error body, a DuckDuckGo error without 202
NonQuotaFailures == {"OTHER_STATUS", "BAD_JSON", "OTHER"}

\* C12: a failure of the backend that is not the quota signal is
\* logged and ends only the current query: the offset is not advanced and the
\* process does not exit with status 1.
C12_NonQuotaFailureEndsQueryOnly ==
    (hist.ended \in NonQuotaFailures /\ hist.cause # "sigint")
    => /\ "backend_error" \in log
       /\ d_offset = start
       /\ exit_status # "1"

\* C13: a Google error with status INVALID_ARGUMENT becomes an empty page:
\* the handler returns, "No more links" is logged, neither limit flag is set,
\* the query ends with its offset unadvanced and the next query is entered.
C13_InvalidArgumentIsEmptyPage ==
    [][ /\ EndsQueryOnly({"INVALID_ARGUMENT"})
        /\ hist'.ended = "INVALID_ARGUMENT"
            => /\ ~client_limit' /\ ~d_limit'
               /\ "no_more_links" \in log'
               /\ hist'.cause \in {"none", "sigint", "normal"}
      ]_vars

\* C13 witness: the first query ended on INVALID_ARGUMENT at its second page
\* and a next query is about to be entered.
C13_Witness ==
    /\ pc = "for"
    /\ engine = "google"
    /\ hist.ended = "INVALID_ARGUMENT"
    /\ hist.npages = 1
    /\ d_offset = per_page
    /\ ~client_limit /\ ~d_limit
    /\ i = 1 /\ i < Len(queries)
    /\ exit_status = "running"

\* C14: Session.clean, called when the queue is exhausted, does not fail,
\* whether or not a session file was written during the run: the process
\* that reaches it ends with exit status 0.
C14_CleanNeverFails ==
    /\ hist.cause # "clean_error"
    /\ (pc = "exited" /\ i = Len(queries) /\ hist.sig = None)
        => exit_status = "0"

\* C15: a process resuming from a session file that is not well-formed fails
\* at startup: its first step ends it with status 1, before a queue is built
\* or a query entered or fetched for, and the file is left as it was.
C15_CorruptSessionFailsAtStartup ==
    [][ (pc = "main" /\ resume /\ NotWellFormed(file))
        => /\ pc' = "exited" /\ exit_status' = "1"
           /\ hist'.firstfetch = <<>> /\ hist'.npages = 0
           /\ d_query' = None /\ queries' = <<>> /\ data' = None
           /\ file' = file
      ]_vars

\* C15 witness: a process started on an object that lacks its offset has
\* ended at startup.
C15_Witness ==
    /\ resume
    /\ pc = "exited" /\ exit_status = "1"
    /\ file # None /\ Get(file).parses /\ Get(file).value.t = "object"
    /\ DOMAIN Get(file).value.v = {"file_or_query", "options", "current_query"}
    /\ hist.cause = "load_error"
    /\ hist.firstfetch = <<>>

\* the fields of the line written, by kind, in the order of the line
LineKinds == [k \in 1..Len(Get(line).fields) |-> Get(line).fields[k].kind]

\* the place of a kind of field in the order URL, code, title, body
Rank(kind) ==
    CASE kind = "url" -> 1 [] kind = "code" -> 2
      [] kind = "title" -> 3 [] kind = "body" -> 4

\* C16: a result line holds the URL, the title exactly when the title option
\* is on, the status exactly when the code option is on and a body snippet
\* exactly when the body option is on, each once and in the order URL, code,
\* title, body; with only the title option on, url https://x.test and title X
\* it holds the URL and X and no status.
C16_ResultLineFields ==
    (pc = "written") =>
      LET f == Get(line).fields
          p == Get(pieces)
      IN  /\ line # None
          /\ Len(f) >= 1 /\ f[1].kind = "url" /\ f[1].text = p.url
          /\ ("title" \in Range(LineKinds)) <=> options.title
          /\ ("code" \in Range(LineKinds)) <=> options.code
          /\ ("body" \in Range(LineKinds)) <=> options.body
          /\ \A k \in 1..(Len(f) - 1) : Rank(f[k].kind) < Rank(f[k + 1].kind)
          /\ \A k \in 1..Len(f) :
               /\ f[k].kind = "title" => f[k].text = p.title
               /\ f[k].kind = "code" => f[k].text = p.code
          /\ ( /\ options.title /\ ~options.code /\ ~options.body
               /\ p.url = "https://x.test" /\ p.title = "X" )
              => ( /\ Len(f) = 2
                   /\ f[1].text = "https://x.test"
                   /\ f[2].kind = "title" /\ f[2].text = "X" )

\* C16 witness: a line with all four fields has been written.
C16_Witness ==
    /\ pc = "written"
    /\ options.title /\ options.code /\ options.body
    /\ LineKinds = <<"url", "code", "title", "body">>
    /\ Get(pieces).code = 404

\* C17: when the response of the client holds items, the page _search hands
\* to the printer is the list of those items, in their order and unchanged,
\* and neither limit flag is set.
C17_SearchReturnsItems ==
    (pc = "print" /\ hist.response # None)
    => /\ results = Get(hist.response).items
       /\ ~d_limit /\ ~client_limit

\* C17 witness: a response with two items has been returned as a page of two.
C17_Witness ==
    /\ pc = "print"
    /\ hist.response = Some([items |-> <<"u1", "u2">>])
    /\ results = <<"u1", "u2">>

\* C18: the first fetch of every query is made at start index 0, except for
\* the query a resumed run restored as current_query, whose first fetch is
\* made at the restored offset.
C18_OnlyResumedQueryGetsOffset ==
    \A k \in 1..Len(hist.firstfetch) :
        LET query == hist.firstfetch[k][1]
            first == hist.firstfetch[k][2]
        IN  first = IF resume /\ current_query = Some(query)
                    THEN Get(offset) ELSE 0

\* the query entered last has finished: it ended on an empty page or on a
\* failure the handler turned into one, or an exception ended it
QueryFinished ==
    d_query # None /\ (hist.ended # "none" \/ hist.cause \in {"quota", "error"})

\* C19: once a query has finished, in Done or by a failure, the session file
\* holds that query as current_query and the offset at which it stopped
\* whenever the loop is about to go on to the next query and when the
\* process has exited other than by completing the run.
C19_SavedAfterEachQuery ==
    ( /\ QueryFinished
      /\ \/ pc \in {"limit", "for", "clean"}
         \/ pc = "exited" /\ hist.cause # "normal" )
    => /\ file # None
       /\ SessionLoad(Get(file)) =
            [file_or_query |-> file_or_query, options |-> options,
             current_query |-> d_query, offset |-> d_offset]

\* C19 witness: the first query ended on an empty second page, the file holds
\* it with offset 10, and the next query is about to be entered.
C19_Witness ==
    /\ pc = "for"
    /\ i = 1 /\ i < Len(queries)
    /\ hist.ended = "empty"
    /\ d_offset = per_page
    /\ file # None
    /\ SessionLoad(Get(file)).current_query = Some(queries[1])
    /\ SessionLoad(Get(file)).offset = per_page

\* C20: once the backend has signalled quota exhaustion the process makes no
\* further fetch: it has ended, and the last client call it made is the one
\* that was answered with the signal -- no other page of that query, no page
\* of a later query of the queue.
C20_NoFetchAfterQuota ==
    hist.quota # None =>
        LET q == Get(hist.quota)
        IN  /\ pc = "exited" /\ exit_status = "1"
            /\ start = q.start
            /\ d_query = Some(q.query)
            /\ i = q.pos
            /\ hist.firstfetch[Len(hist.firstfetch)][1] = q.query
            /\ Len(hist.firstfetch) = i + 1

\* C20 witness: the quota signal came on the second page of the first of
\* three queries; the two queries after it were never fetched for.
C20_Witness ==
    /\ hist.quota # None
    /\ Get(hist.quota).pos = 0 /\ Get(hist.quota).start = per_page
    /\ Len(queries) = 3
    /\ Len(hist.firstfetch) = 1
    /\ pc = "exited"

\* the number of results the provider holds for the query being paged
\* through: what the DuckDuckGo client returned for it, and at most MaxPages
\* pages with Google
ResultSetSize ==
    IF engine = "duckduckgo" THEN Len(Get(hist.response).items)
    ELSE MaxPages * per_page

\* C21: pagination through a finite result set stops: a page with items is
\* returned only for a start index inside the result set, so that the page
\* asked for behind its end is empty and the query reaches Done -- with
\* DuckDuckGo as with Google.
C21_PaginationEndsWithResultSet ==
    (pc = "print" /\ hist.response # None) => start < ResultSetSize

\* C22: with live enrichment on, a result line is written only when no live
\* fetch of the page is outstanding, and the offset is advanced only when the
\* loop has written a line for every item of the page; the fetches of a page
\* complete in any order (LiveDone takes any pending one).
C22_PageEmittedAfterAllFetches ==
    [][ /\ (is_extended(options) /\ emitted' > emitted)
            => (pending = {} /\ written' = written + 1)
        /\ (pc \in {"live", "emit", "printed"} /\ d_offset' # d_offset)
            => (pc = "printed" /\ written = Len(results) /\ pending = {})
      ]_vars

\* C22 witness: the second item's fetch came in before the first's, then both
\* lines of the page were written and the offset was advanced.
C22_Witness ==
    /\ is_extended(options)
    /\ pc = "sleep"
    /\ Len(results) = 2 /\ written = 2 /\ emitted = 2
    /\ pending = {}
    /\ d_offset = start + per_page

\* C23: an interrupt takes effect only between pages or between queries: when
\* it ends the process, no client call was in flight, no live fetch of a page
\* was outstanding and no page was left with only some of its lines written.
C23_InterruptOnlyBetweenSteps ==
    (hist.sig # None /\ pc = "exited")
    => Get(hist.sig).at \notin {"fetch", "live", "emit"}

\* C24: with engine duckduckgo, the body option on and the code option off no
\* live fetch is made, every item of a page gets its line (with the snippet
\* of the backend) and pagination goes on: the formatter does not fail and
\* the offset is advanced past a page with items.
C24_DuckDuckGoBodyWithoutLiveFetch ==
    (options.engine = "duckduckgo" /\ options.body /\ ~options.code)
    => /\ pending = {} /\ pc # "live"
       /\ hist.exc # "KeyError"
       /\ (pc = "printed" /\ hist.response # None) => written = Len(results)

\* C25: when an error leaves a query, the session is saved with that query
\* and its offset and the process exits with status 1; main writes the error
\* to the log exactly when the query is not the one at index 0 of the
\* process's queue (on resume: the resumed query).
C25_FirstQueryErrorNotLogged ==
    (pc = "exited" /\ hist.cause \in {"quota", "error"})
    => /\ exit_status = "1"
       /\ ("query_error" \in log) <=> (i # 0)
       /\ d_query = Some(queries[i + 1])
       /\ file # None
       /\ SessionLoad(Get(file)).current_query = d_query
       /\ SessionLoad(Get(file)).offset = d_offset

\* C25 witness: on a resumed run the resumed query failed with an error that
\* main did not log.
C25_Witness ==
    /\ pc = "exited" /\ exit_status = "1"
    /\ resume /\ i = 0
    /\ hist.cause = "error"
    /\ d_query = current_query
    /\ "query_error" \notin log
    /\ file # None

\* the restored current_query equals no query of the list load_queries
\* returns (which holds the lines of the file, or the literal query)
NotInList ==
    /\ current_query # None
    /\ Get(current_query) \notin
         (IF file_or_query = QueryPath THEN Range(ReadLines(qfile))
                                       ELSE {file_or_query})

\* C26: a resumed run whose current_query equals no query of the loaded list
\* has an empty queue: it fetches nothing and, unless interrupted, removes
\* the session file and ends with exit status 0.
C26_UnknownCurrentQueryEmptiesQueue ==
    (resume /\ data # None /\ pc # "main" /\ NotInList)
    => /\ queries = <<>>
       /\ hist.firstfetch = <<>> /\ d_query = None
       /\ pc \in {"for", "clean", "exited"}
       /\ (pc = "exited" /\ hist.sig = None)
            => (exit_status = "0" /\ file = None)

\* C26 witness: resumed on a three-line file with a current_query that is in
\* none of its lines, the process has ended with status 0 and no file.
C26_Witness ==
    /\ resume /\ pc = "exited" /\ exit_status = "0"
    /\ current_query = Some("z\n")
    /\ Len(ReadLines(qfile)) = 3
    /\ queries = <<>> /\ hist.firstfetch = <<>>
    /\ file = None

\* the process has stopped with status 1 and the session file holds the
\* query the Dorker was on
StoppedOnQuery ==
    /\ pc = "exited" /\ exit_status = "1"
    /\ hist.cause \in {"quota", "error", "sigint"}
    /\ d_query # None
    /\ file # None /\ ~NotWellFormed(file)
    /\ SessionLoad(Get(file)).current_query = d_query

\* C27: when a run is stopped by quota exhaustion, a propagated error or an
\* interrupt, the offset in the session file is at most the start index of
\* the earliest page of current_query whose items were not all emitted
\* (hist.covered: every page of the query below it has been emitted, in this
\* run or up to the offset the run resumed the query from).
C27_SavedOffsetSkipsNoPage ==
    StoppedOnQuery => SessionLoad(Get(file)).offset <= hist.covered

\* C28: on a resumed run, the backend that serves a fetch is the engine
\* recorded in the options of the session that was loaded.
C28_ResumeUsesSessionEngine ==
    (resume /\ data # None /\ pc = "fetch")
    => engine = Get(data).options.engine

\* C29: when a live fetch of an item of a page fails, no line of that page is
\* written, the failure leaves pagination as a per-query error, the session
\* is saved with the start index of that page as offset, and the process
\* exits with status 1.
C29_LiveFetchFailureStopsRun ==
    hist.exc = "ClientError"
    => /\ written = 0
       /\ hist.cause = "error"
       /\ pc = "exited" /\ exit_status = "1"
       /\ d_offset = start
       /\ file # None
       /\ SessionLoad(Get(file)).offset = start
       /\ SessionLoad(Get(file)).current_query = d_query

\* C29 witness: the live fetch of an item of the second page of a query
\* failed and the process has exited.
C29_Witness ==
    /\ hist.exc = "ClientError" /\ pc = "exited"
    /\ start = per_page /\ Len(results) > 0 /\ emitted > 0
    /\ file # None /\ SessionLoad(Get(file)).offset = per_page

\* C30: the Dorker's is_limit_reached is false in every reachable state, also
\* after the classifier has set the SearchClient's flag: the exit on
\* dorker.is_limit_reached is never taken, and query_results returns to main
\* only after an empty page.
C30_DorkerLimitNeverSet ==
    /\ ~d_limit
    /\ hist.cause # "limit"
    /\ pc \in {"save", "limit"} => results = <<>>

\* C30 witness: the classifier has set the client's flag on a quota signal
\* met in the second query, the process has exited through the exception, and
\* the Dorker's flag is still false.
C30_Witness ==
    /\ client_limit /\ ~d_limit
    /\ pc = "exited" /\ exit_status = "1"
    /\ hist.cause = "quota" /\ hist.quota # None /\ i = 1

====
